---- MODULE Spec2Model ----
(***************************************************************************)
(* GenerateSchema (schema.go): the recursive walk of a Go type that builds *)
(* a JSON schema.  The walk is modelled as a machine with an explicit call *)
(* stack: one frame per active call of GenerateSchema, one action per      *)
(* statement group of the function.                                        *)
(*                                                                         *)
(* Go strings that the code takes apart (tag values, names) are sequences  *)
(* of one-character strings; kinds and Schema.Type, which the code only    *)
(* compares with literals, are TLA+ strings.  A nil pointer, nil slice,    *)
(* nil map or nil interface is the empty sequence <<>>; a non-nil pointer  *)
(* or interface value v is <<v>>.                                          *)
(***************************************************************************)
EXTENDS Integers, Sequences, FiniteSets, TLC

VARIABLES named, arg, stack, ret, pc, calls

vars == <<named, arg, stack, ret, pc, calls>>

(***************************************************************************)
(* Bounds of the model.                                                    *)
(***************************************************************************)
\* The largest number of fields of the named record type given as input.
MaxFields == 2

\* The number of frames at which the Go runtime's stack limit is hit.
MaxStack == 7

(***************************************************************************)
(* Texts.                                                                  *)
(***************************************************************************)
DigitChars == <<"0", "1", "2", "3", "4", "5", "6", "7", "8", "9">>

Digits == {DigitChars[k] : k \in 1..10}

DigitVal(c) == (CHOOSE k \in 1..10 : DigitChars[k] = c) - 1

Range(s) == {s[k] : k \in 1..Len(s)}

\* strings.Split(s, sep) for a one-character separator: the parts of s
\* between the separators; a text without separator (also "") is one part.
RECURSIVE StringsSplit(_, _)
StringsSplit(s, sep) ==
    IF \E k \in 1..Len(s) : s[k] = sep
    THEN LET k == CHOOSE k \in 1..Len(s) :
                      s[k] = sep /\ \A j \in 1..(k - 1) : s[j] # sep
         IN  <<SubSeq(s, 1, k - 1)>> \o StringsSplit(SubSeq(s, k + 1, Len(s)), sep)
    ELSE <<s>>

RECURSIVE DecimalValue(_)
DecimalValue(ds) ==
    IF ds = <<>> THEN 0
    ELSE 10 * DecimalValue(SubSeq(ds, 1, Len(ds) - 1)) + DigitVal(ds[Len(ds)])

\* strconv.Atoi(s): an optional sign, then one or more decimal digits.  The
\* texts of the model are short, so the value always fits an int.
Atoi(s) ==
    LET signed == s # <<>> /\ s[1] \in {"-", "+"}
        ds     == IF signed THEN Tail(s) ELSE s
    IN  IF ds # <<>> /\ Range(ds) \subseteq Digits
        THEN [ok |-> TRUE,
              val |-> IF signed /\ s[1] = "-" THEN 0 - DecimalValue(ds)
                      ELSE DecimalValue(ds)]
        ELSE [ok |-> FALSE, val |-> 0]

sTrue == <<"t", "r", "u", "e">>

sFalse == <<"f", "a", "l", "s", "e">>

sNull == <<"n", "u", "l", "l">>

\* A JSON number without fraction or exponent: -?(0|[1-9][0-9]*).
IsJsonInt(e) ==
    LET ds == IF e # <<>> /\ e[1] = "-" THEN Tail(e) ELSE e
    IN  /\ ds # <<>>
        /\ Range(ds) \subseteq Digits
        /\ (Len(ds) > 1 => ds[1] # "0")

\* A JSON string without escapes: "..." .
IsJsonString(e) ==
    /\ Len(e) >= 2
    /\ e[1] = "\""
    /\ e[Len(e)] = "\""
    /\ \A k \in 2..(Len(e) - 1) : e[k] \notin {"\"", "\\"}

\* json.Unmarshal([]byte(e), &v) for v an interface{}: the value stored in v
\* (<<>> for JSON null, which leaves the interface nil), or a syntax error.
\* Texts of the model hold no white space, bracket, fraction or exponent.
JsonUnmarshal(e) ==
    IF e = sTrue THEN [ok |-> TRUE, v |-> <<[type |-> "bool", val |-> <<"1">>]>>]
    ELSE IF e = sFalse THEN [ok |-> TRUE, v |-> <<[type |-> "bool", val |-> <<"0">>]>>]
    ELSE IF e = sNull THEN [ok |-> TRUE, v |-> <<>>]
    ELSE IF IsJsonInt(e) THEN [ok |-> TRUE, v |-> <<[type |-> "float64", val |-> e]>>]
    ELSE IF IsJsonString(e)
         THEN [ok |-> TRUE,
               v |-> <<[type |-> "string", val |-> SubSeq(e, 2, Len(e) - 1)]>>]
    ELSE [ok |-> FALSE, v |-> <<>>]

(***************************************************************************)
(* Errors.                                                                 *)
(***************************************************************************)
NoErr == [type |-> "nil"]

\* The *strconv.NumError of a failed Atoi(d):
\*   strconv.Atoi: parsing "<d>": invalid syntax
NumError(d) == [type |-> "*strconv.NumError", Func |-> "Atoi", Num |-> d,
                Err |-> "invalid syntax"]

\* The *json.SyntaxError of a failed Unmarshal; its message and offset are
\* functions of the input text.
SyntaxError(e) == [type |-> "*json.SyntaxError", input |-> e]

\* fmt.Errorf("unsupported type %s from %s", t.Kind(), t)
UnsupportedError(t) == [type |-> "*errors.errorString", kind |-> t.kind, from |-> t]

(***************************************************************************)
(* Type descriptors (reflect.Type) and struct fields.                      *)
(*   [kind |-> "struct", fields |-> <<[Name, Type, Tag], ...>>]           *)
(*   [kind |-> "slice" | "array" | "ptr", elem |-> t]                      *)
(*   [kind |-> k] for every other kind                                     *)
(* A tag is a function from the keys it holds to their texts.  SelfRef     *)
(* stands for the named type being declared, so that a declaration such as *)
(* type T struct { Next *T } is the descriptor of T with a field of type   *)
(* ptr to SelfRef.                                                         *)
(***************************************************************************)
IntKinds == {"int", "int8", "int16", "int32", "int64"}

UintKinds == {"uint", "uint8", "uint16", "uint32", "uint64"}

FloatKinds == {"float32", "float64"}

SelfRef == [kind |-> "self"]

Prim(k) == [kind |-> k]

PtrTo(t) == [kind |-> "ptr", elem |-> t]

SliceOf(t) == [kind |-> "slice", elem |-> t]

ArrayOf(t) == [kind |-> "array", elem |-> t]

\* The declared identifier of the i-th field (i from 0): F0, F1, ...
FieldIdent(i) == <<"F", DigitChars[i + 1]>>

\* The struct type whose fields have the types and tags of fs, in order.
StructOf(fs) ==
    [kind |-> "struct",
     fields |-> [k \in 1..Len(fs) |->
                    [Name |-> FieldIdent(k - 1), Type |-> fs[k].Type, Tag |-> fs[k].Tag]]]

\* t.Elem(): a reference to the named type is that type.
Elem(t) == IF t.elem = SelfRef THEN named ELSE t.elem

\* t.NumField() and t.Field(i), i from 0.
NumField(t) == Len(t.fields)

Field(t, i) == t.fields[i + 1]

\* f.Tag.Lookup(key) and f.Tag.Get(key).
TagLookup(tag, key) ==
    IF key \in DOMAIN tag THEN [ok |-> TRUE, v |-> tag[key]]
    ELSE [ok |-> FALSE, v |-> <<>>]

TagGet(tag, key) == TagLookup(tag, key).v

(***************************************************************************)
(* The Schema struct.                                                      *)
(***************************************************************************)
EmptySchema ==
    [Type |-> "", Description |-> <<>>, Items |-> <<>>, Properties |-> <<>>,
     Required |-> <<>>, Format |-> <<>>, Enum |-> <<>>, Default |-> <<>>,
     Example |-> <<>>, Minimum |-> <<>>, Maximum |-> <<>>]

\* &Schema{Type: "integer"}, and likewise for number, boolean, string.
LeafSchema(type) == [EmptySchema EXCEPT !.Type = type]

\* min := 0; &Schema{Type: "integer", Minimum: &min}
UintSchemaNoMinimum == [EmptySchema EXCEPT !.Type = "integer"]

UintSchema == [EmptySchema EXCEPT !.Type = "integer", !.Minimum = <<0>>]

\* return nil, err
ReturnErrWithSchema(schema, err) == [node |-> <<schema>>, err |-> err]

ReturnErr(schema, err) == [node |-> <<>>, err |-> err]

\* return schema, nil
ReturnSchema(schema) == [node |-> <<schema>>, err |-> NoErr]

\* No return value is waiting for a caller.
NoRet == [none |-> TRUE]

(***************************************************************************)
(* The call stack.  A frame holds the locals of one call of                *)
(* GenerateSchema: t, schema, properties, required, the loop index i, and  *)
(* of the current field jsonTags, name and s; at is the statement the call *)
(* is at, path the place of t in the type given (0 for an element or       *)
(* pointer target, k + 1 for field k).                                     *)
(***************************************************************************)
NewFrame(t, path) ==
    [t |-> t, at |-> "switch", path |-> path, schema |-> EmptySchema,
     properties |-> <<>>, required |-> <<>>, i |-> 0, jsonTags |-> <<>>,
     name |-> <<>>, s |-> <<>>]

Top == stack[Len(stack)]

Running == pc = "running" /\ stack # <<>>

\* Whether one more call fits the stack.
CanCall == Len(stack) < MaxStack

\* The order of the statements applied to a field once its schema is there.
TagOrderSwapped == <<"description", "enum", "maximum", "minimum", "example", "optional">>

TagOrder == <<"description", "enum", "minimum", "maximum", "example", "optional">>

AfterStep(at) ==
    IF at = "fieldret" THEN TagOrder[1]
    ELSE TagOrder[(CHOOSE k \in 1..Len(TagOrder) : TagOrder[k] = at) + 1]

\* name := f.Name; if len(jsonTags) > 0 { name = jsonTags[0] }
FieldName(f, jsonTags) == IF Len(jsonTags) > 0 THEN jsonTags[1] ELSE f.Name

\* optional := false; for _, tag := range jsonTags[1:] { if tag == "omitempty" ... }
sOmitEmpty == <<"o", "m", "i", "t", "e", "m", "p", "t", "y">>

IsOptional(jsonTags) == \E k \in 2..Len(jsonTags) : jsonTags[k] = sOmitEmpty

\* properties[name] = s
AddPropertyDropped(properties, name, s) == properties

AddProperty(properties, name, s) == (name :> s) @@ properties

\* A write through the pointer s, which properties[name] holds too.
SetS(fr, s) == [fr EXCEPT !.s = <<s>>, !.properties = AddProperty(@, fr.name, s)]

\* schema.Items = s
SetItemsDropped(schema, s) == schema

SetItems(schema, s) == [schema EXCEPT !.Items = s]

\* if len(properties) > 0 { schema.Properties = properties }
\* if len(required) > 0 { schema.Required = required }
FinishStruct(schema, properties, required) ==
    [schema EXCEPT !.Properties = IF Cardinality(DOMAIN properties) > 0
                                  THEN properties ELSE @,
                   !.Required = IF Len(required) > 0 THEN required ELSE @]

\* The error of a minimum or maximum text d that Atoi rejects.
AtoiErrorBlank(d) == NumError(<<>>)

AtoiError(d) == NumError(d)

\* i++
NextIndexStuck(i) == i

NextIndex(i) == i + 1

(***************************************************************************)
(* Steps of the machine.                                                   *)
(***************************************************************************)
\* A return statement of the top call: its frame is popped and the value
\* handed to the caller, or to the caller of GenerateSchema.
Return(val) ==
    /\ stack' = SubSeq(stack, 1, Len(stack) - 1)
    /\ ret' = val
    /\ pc' = IF Len(stack) = 1 THEN "done" ELSE "running"
    /\ UNCHANGED <<named, arg, calls>>

\* The top call, left as fr, calls GenerateSchema(t); step is the place of t
\* under the caller's type.
Call(fr, t, step) ==
    /\ stack' = [stack EXCEPT ![Len(stack)] = fr] \o <<NewFrame(t, Append(fr.path, step))>>
    /\ calls' = Append(calls, Append(fr.path, step))
    /\ ret' = NoRet
    /\ UNCHANGED <<named, arg, pc>>

\* The top call goes on as fr.
Step(fr) ==
    /\ stack' = [stack EXCEPT ![Len(stack)] = fr]
    /\ ret' = NoRet
    /\ UNCHANGED <<named, arg, pc, calls>>

CaseStruct ==
    /\ Running /\ Top.at = "switch" /\ Top.t.kind = "struct"
    /\ Step([Top EXCEPT !.schema.Type = "object", !.properties = <<>>,
                        !.required = <<>>, !.i = 0, !.at = "loop"])

LoopField ==
    /\ Running /\ Top.at = "loop" /\ Top.i < NumField(Top.t)
    /\ CanCall
    /\ LET f        == Field(Top.t, Top.i)
           jsonTags == StringsSplit(TagGet(f.Tag, "json"), ",")
           name     == FieldName(f, jsonTags)
       IN  Call([Top EXCEPT !.jsonTags = jsonTags, !.name = name, !.at = "fieldret"],
                f.Type, Top.i + 1)

FieldReturn ==
    /\ Running /\ Top.at = "fieldret"
    /\ IF ret.err # NoErr
       THEN Return(ReturnErr(Top.schema, ret.err))
       ELSE Step([SetS(Top, ret.node[1]) EXCEPT !.at = AfterStep("fieldret")])

TagDescription ==
    /\ Running /\ Top.at = "description"
    /\ LET d  == TagLookup(Field(Top.t, Top.i).Tag, "description")
           fr == IF d.ok THEN SetS(Top, [Top.s[1] EXCEPT !.Description = d.v]) ELSE Top
       IN  Step([fr EXCEPT !.at = AfterStep("description")])

TagEnum ==
    /\ Running /\ Top.at = "enum"
    /\ LET e  == TagLookup(Field(Top.t, Top.i).Tag, "enum")
           fr == IF e.ok
                 THEN SetS(Top, [Top.s[1] EXCEPT !.Enum = StringsSplit(e.v, ",")])
                 ELSE Top
       IN  Step([fr EXCEPT !.at = AfterStep("enum")])

TagMinimum ==
    /\ Running /\ Top.at = "minimum"
    /\ LET d   == TagLookup(Field(Top.t, Top.i).Tag, "minimum")
           min == Atoi(d.v)
       IN  IF d.ok /\ ~min.ok
           THEN Return(ReturnErr(Top.schema, AtoiError(d.v)))
           ELSE Step([(IF d.ok THEN SetS(Top, [Top.s[1] EXCEPT !.Minimum = <<min.val>>])
                       ELSE Top) EXCEPT !.at = AfterStep("minimum")])

TagMaximum ==
    /\ Running /\ Top.at = "maximum"
    /\ LET d   == TagLookup(Field(Top.t, Top.i).Tag, "maximum")
           max == Atoi(d.v)
       IN  IF d.ok /\ ~max.ok
           THEN Return(ReturnErr(Top.schema, AtoiError(d.v)))
           ELSE Step([(IF d.ok THEN SetS(Top, [Top.s[1] EXCEPT !.Maximum = <<max.val>>])
                       ELSE Top) EXCEPT !.at = AfterStep("maximum")])

TagExample ==
    /\ Running /\ Top.at = "example"
    /\ LET e == TagLookup(Field(Top.t, Top.i).Tag, "example")
           v == JsonUnmarshal(e.v)
       IN  IF e.ok /\ Top.s[1].Type # "string" /\ ~v.ok
           THEN Return(ReturnErr(Top.schema, SyntaxError(e.v)))
           ELSE Step([(IF ~e.ok THEN Top
                       ELSE IF Top.s[1].Type = "string"
                            THEN SetS(Top, [Top.s[1] EXCEPT
                                       !.Example = <<[type |-> "string", val |-> e.v]>>])
                            ELSE SetS(Top, [Top.s[1] EXCEPT !.Example = v.v]))
                      EXCEPT !.at = AfterStep("example")])

FieldOptional ==
    /\ Running /\ Top.at = "optional"
    /\ LET optional == IsOptional(Top.jsonTags)
       IN  Step([Top EXCEPT !.required = IF ~optional THEN Append(@, Top.name) ELSE @,
                            !.i = NextIndex(@), !.at = "loop"])

LoopEnd ==
    /\ Running /\ Top.at = "loop" /\ Top.i >= NumField(Top.t)
    /\ Return(ReturnSchema(FinishStruct(Top.schema, Top.properties, Top.required)))

CaseMap ==
    /\ Running /\ Top.at = "switch" /\ Top.t.kind = "map"
    /\ Return(ReturnSchema(Top.schema))

CaseSlice ==
    /\ Running /\ Top.at = "switch" /\ Top.t.kind \in {"slice", "array"}
    /\ CanCall
    /\ Call([Top EXCEPT !.schema.Type = "array", !.at = "elemret"], Elem(Top.t), 0)

ElemReturn ==
    /\ Running /\ Top.at = "elemret"
    /\ IF ret.err # NoErr
       THEN Return(ReturnErr(Top.schema, ret.err))
       ELSE Return(ReturnSchema(SetItems(Top.schema, ret.node)))

CaseInt ==
    /\ Running /\ Top.at = "switch" /\ Top.t.kind \in IntKinds
    /\ Return(ReturnSchema(LeafSchema("integer")))

CaseUint ==
    /\ Running /\ Top.at = "switch" /\ Top.t.kind \in UintKinds
    /\ Return(ReturnSchema(UintSchema))

CaseFloat ==
    /\ Running /\ Top.at = "switch" /\ Top.t.kind \in FloatKinds
    /\ Return(ReturnSchema(LeafSchema("number")))

CaseBool ==
    /\ Running /\ Top.at = "switch" /\ Top.t.kind = "bool"
    /\ Return(ReturnSchema(LeafSchema("boolean")))

CaseString ==
    /\ Running /\ Top.at = "switch" /\ Top.t.kind = "string"
    /\ Return(ReturnSchema(LeafSchema("string")))

CasePtr ==
    /\ Running /\ Top.at = "switch" /\ Top.t.kind = "ptr"
    /\ CanCall
    /\ Call([Top EXCEPT !.at = "ptrret"], Elem(Top.t), 0)

PtrReturn ==
    /\ Running /\ Top.at = "ptrret"
    /\ Return(ret)

HandledKinds ==
    {"struct", "map", "slice", "array", "bool", "string", "ptr"}
        \cup IntKinds \cup UintKinds \cup FloatKinds

CaseDefault ==
    /\ Running /\ Top.at = "switch" /\ Top.t.kind \notin HandledKinds
    /\ Return(ReturnErr(Top.schema, UnsupportedError(Top.t)))

\* No frame is left for a further call: the Go runtime ends the program
\* ("goroutine stack exceeds ... limit"), and GenerateSchema never returns.
AboutToCall ==
    IF Top.at = "switch" THEN Top.t.kind \in {"slice", "array", "ptr"}
    ELSE Top.at = "loop" /\ Top.i < NumField(Top.t)

StackOverflow ==
    /\ Running /\ ~CanCall /\ AboutToCall
    /\ pc' = "fatal"
    /\ UNCHANGED <<named, arg, stack, ret, calls>>

(***************************************************************************)
(* The types given to GenerateSchema.  named is the declared type T, a     *)
(* struct of at most MaxFields fields or one of a few other types; arg is  *)
(* T, *T or []T.                                                           *)
(***************************************************************************)
NoTag == <<>>

JsonTag(v) == [json |-> v]

sJsonA == <<"a">>

sJsonAOmit == <<"a", ",">> \o sOmitEmpty

sJsonOmit == <<",">> \o sOmitEmpty

sJsonBString == <<"b", ",", "s", "t", "r", "i", "n", "g">>

sAbc == <<"a", "b", "c">>

sHi == <<"h", "i">>

sQuotedHi == <<"\"", "h", "i", "\"">>

\* Anonymous struct types used as field types.
InnerBad == StructOf(<<[Type |-> Prim("func"), Tag |-> [minimum |-> <<"q">>]]>>)

InnerPair ==
    StructOf(<<[Type |-> SliceOf(Prim("uint8")), Tag |-> JsonTag(sJsonA)],
               [Type |-> Prim("int32"), Tag |-> [json |-> sJsonAOmit, maximum |-> <<"+", "7">>]]>>)

UntaggedTypes ==
    {Prim("int"), Prim("uint"), Prim("string"), Prim("map"), Prim("chan"),
     PtrTo(Prim("uint16")), PtrTo(SelfRef), SliceOf(SelfRef), InnerBad, InnerPair}

TaggedFields ==
    {[Type |-> Prim("string"), Tag |-> JsonTag(sJsonA)],
     [Type |-> Prim("string"),
      Tag |-> [json |-> sJsonAOmit, description |-> sHi, enum |-> <<"p", ",", "q">>,
               example |-> sHi]],
     [Type |-> Prim("string"), Tag |-> JsonTag(sJsonOmit)],
     [Type |-> PtrTo(Prim("uint")), Tag |-> JsonTag(sJsonBString)],
     [Type |-> Prim("uint"), Tag |-> [minimum |-> <<"-", "3">>, maximum |-> <<"9">>]],
     [Type |-> Prim("uint"), Tag |-> [maximum |-> <<"9">>]],
     [Type |-> Prim("uint"), Tag |-> [minimum |-> sAbc, maximum |-> <<"x">>]],
     [Type |-> Prim("int"), Tag |-> [maximum |-> <<"x">>, example |-> sHi]],
     [Type |-> Prim("int"), Tag |-> [minimum |-> <<"0", "7">>, example |-> <<"0", "7">>]],
     [Type |-> Prim("float64"),
      Tag |-> [json |-> sJsonA, minimum |-> <<"1">>, example |-> sQuotedHi]],
     [Type |-> SliceOf(Prim("uint")), Tag |-> [json |-> sJsonA, minimum |-> <<"2">>]],
     [Type |-> Prim("bool"), Tag |-> [enum |-> <<>>, example |-> sTrue]]}

FieldChoices == {[Type |-> t, Tag |-> NoTag] : t \in UntaggedTypes} \cup TaggedFields

RECURSIVE FieldSeqs(_)
FieldSeqs(n) ==
    IF n = 0 THEN {<<>>}
    ELSE FieldSeqs(n - 1)
             \cup {Append(fs, f) : fs \in {x \in FieldSeqs(n - 1) : Len(x) = n - 1},
                                   f \in FieldChoices}

NamedTypes ==
    {StructOf(fs) : fs \in FieldSeqs(MaxFields)}
        \cup {Prim("uint64"), Prim("int8"), Prim("float32"), Prim("bool"), Prim("func"),
              Prim("uintptr"), Prim("map"), PtrTo(PtrTo(Prim("uint32"))),
              SliceOf(SliceOf(Prim("string"))), ArrayOf(Prim("interface"))}

Init ==
    /\ named \in NamedTypes
    /\ arg \in {named, PtrTo(SelfRef), SliceOf(SelfRef)}
    /\ stack = <<NewFrame(arg, <<>>)>>
    /\ ret = NoRet
    /\ pc = "running"
    /\ calls = <<<<>>>>

Next ==
    \/ CaseStruct
    \/ LoopField
    \/ FieldReturn
    \/ TagDescription
    \/ TagEnum
    \/ TagMinimum
    \/ TagMaximum
    \/ TagExample
    \/ FieldOptional
    \/ LoopEnd
    \/ CaseMap
    \/ CaseSlice
    \/ ElemReturn
    \/ CaseInt
    \/ CaseUint
    \/ CaseFloat
    \/ CaseBool
    \/ CaseString
    \/ CasePtr
    \/ PtrReturn
    \/ CaseDefault
    \/ StackOverflow

Spec == Init /\ [][Next]_vars

\* The types given when termination is checked: fields of every type, with
\* no annotation or with one of three annotated fields (a failing minimum
\* and maximum, a failing example, a json name).
WalkFieldChoices ==
    {[Type |-> t, Tag |-> NoTag] : t \in UntaggedTypes}
        \cup {f \in TaggedFields :
                 \/ DOMAIN f.Tag = {"json"} /\ f.Type = Prim("string") /\ f.Tag.json = sJsonA
                 \/ DOMAIN f.Tag = {"minimum", "maximum"} /\ f.Tag.maximum = <<"x">>
                 \/ DOMAIN f.Tag = {"minimum", "example"}}

WalkInit ==
    /\ Init
    /\ named.kind = "struct" => \A k \in 1..Len(named.fields) :
           [Type |-> named.fields[k].Type, Tag |-> named.fields[k].Tag] \in WalkFieldChoices

\* A call that can take a step takes it: the walk is one sequential run.
FairSpec == WalkInit /\ [][Next]_vars /\ WF_vars(Next)

(***************************************************************************)
(* What the properties speak of.                                           *)
(***************************************************************************)
Done == pc = "done"

\* GenerateSchema returned a node and no error.
Succeeded == Done /\ ret.err = NoErr

\* An error is on its way up the stack.
ErrPending == pc = "running" /\ ret # NoRet /\ ret.err # NoErr

\* The type under the pointers of t.
RECURSIVE Deref(_)
Deref(t) == IF t.kind = "ptr" THEN Deref(Elem(t)) ELSE t

\* The record type that arg is or wraps, with its node in the tree n of a
\* successful call: the node itself under pointers, the items under slices.
RECURSIVE Reach(_, _)
Reach(t, n) ==
    IF t.kind = "ptr" THEN Reach(Elem(t), n)
    ELSE IF t.kind \in {"slice", "array"} THEN Reach(Elem(t), n.Items[1])
    ELSE [t |-> t, node |-> n]

Root == Reach(arg, ret.node[1])

\* All nodes of the tree n.
RECURSIVE AllNodes(_)
AllNodes(n) ==
    {n} \cup (IF n.Items = <<>> THEN {} ELSE AllNodes(n.Items[1]))
        \cup UNION {AllNodes(n.Properties[k]) : k \in DOMAIN n.Properties}

\* The json annotation of a field: its name part and its modifiers.
HasJson(f) == "json" \in DOMAIN f.Tag

JsonParts(f) == StringsSplit(f.Tag.json, ",")

\* The resolved name of a field: the name of its json annotation if it has
\* one, else its declared identifier.
ResolvedName(f) == IF HasJson(f) THEN JsonParts(f)[1] ELSE f.Name

\* The json annotation of the field carries the omitempty modifier.
Omittable(f) == HasJson(f) /\ \E k \in 2..Len(JsonParts(f)) : JsonParts(f)[k] = sOmitEmpty

RECURSIVE RequiredNames(_)
RequiredNames(fs) ==
    IF fs = <<>> THEN <<>>
    ELSE (IF Omittable(Head(fs)) THEN <<>> ELSE <<ResolvedName(Head(fs))>>)
             \o RequiredNames(Tail(fs))

NoDuplicates(s) == \A j, k \in 1..Len(s) : s[j] = s[k] => j = k

\* The annotation of f under key is there and malformed.
BadInt(f, key) == key \in DOMAIN f.Tag /\ ~Atoi(f.Tag[key]).ok

BadExample(f) ==
    /\ "example" \in DOMAIN f.Tag
    /\ Deref(f.Type).kind # "string"
    /\ ~JsonUnmarshal(f.Tag.example).ok

\* C1: for every record type for which GenerateSchema succeeds, the keys of
\* properties are exactly the resolved names of the fields (the json name if
\* annotated, else the declared identifier).
PropertiesKeysAreResolvedNames ==
    (Succeeded /\ Root.t.kind = "struct") =>
        DOMAIN Root.node.Properties = {ResolvedName(f) : f \in Range(Root.t.fields)}

\* C2: for every record type for which GenerateSchema succeeds, required is
\* the sequence, in declaration order, of the resolved names of the fields
\* whose json annotation does not carry omitempty, whatever their types.
RequiredIsNonOmittableNames ==
    (Succeeded /\ Root.t.kind = "struct") =>
        Root.node.Required = RequiredNames(Root.t.fields)

\* C3: in every node of a returned tree, required holds no name twice.
RequiredHasNoDuplicates ==
    Succeeded => \A n \in AllNodes(ret.node[1]) : NoDuplicates(n.Required)

\* Some type or annotation that the walk of t can meet fails: an
\* unsupported kind, or a malformed minimum, maximum or example.
RECURSIVE Fails(_)
Fails(t) ==
    IF t.kind = "struct"
    THEN \E k \in 1..Len(t.fields) :
             LET f == t.fields[k]
             IN  Fails(f.Type) \/ BadInt(f, "minimum") \/ BadInt(f, "maximum")
                     \/ BadExample(f)
    ELSE IF t.kind \in {"slice", "array", "ptr"}
         THEN t.elem # SelfRef /\ Fails(t.elem)
    ELSE t.kind \notin HandledKinds

\* C4: every return of GenerateSchema, at any depth, hands back either a
\* node and no error or an error and no node; and when a type or annotation
\* in the tree fails, the caller gets no node.
NodeOrErrorNeverBoth ==
    /\ ret # NoRet => ((ret.node = <<>>) # (ret.err = NoErr))
    /\ (Done /\ Fails(named)) => (ret.node = <<>> /\ ret.err # NoErr)

\* A failure two calls below the type given: no node comes back.
DeepFailureNoNode ==
    /\ Done /\ arg # named /\ named.kind = "struct"
    /\ \E k \in 1..Len(named.fields) : named.fields[k].Type = InnerBad
    /\ ret = [node |-> <<>>, err |-> UnsupportedError(Prim("func"))]

\* Atoi is about to reject the minimum or maximum text of the current field.
AtoiFails ==
    /\ Running /\ Top.at \in {"minimum", "maximum"}
    /\ BadInt(Field(Top.t, Top.i), Top.at)

\* The error names the text x: a NumError's message quotes its Num.
ErrNames(err, x) == err.type = "*strconv.NumError" /\ err.Num = x

\* C5 as stated: a minimum or maximum text that is no integer makes
\* GenerateSchema fail with an error that names the field and the text, and
\* no node.
MalformedConstraintNamesFieldAndText ==
    [][AtoiFails =>
          LET f == Field(Top.t, Top.i)
          IN  /\ ret'.node = <<>>
              /\ ErrNames(ret'.err, f.Tag[Top.at])
              /\ (ErrNames(ret'.err, f.Name) \/ ErrNames(ret'.err, Top.name))]_vars

\* C5 as amended: when the walk reaches a minimum or maximum text that is
\* no integer, the call fails with no node and with Atoi's error, which
\* is made of the offending text alone; every caller hands it on unchanged.
MalformedConstraintNamesText ==
    [][/\ AtoiFails =>
            ret' = [node |-> <<>>, err |-> NumError(Field(Top.t, Top.i).Tag[Top.at])]
       /\ ErrPending => ret' = ret]_vars

\* GenerateSchema has returned the error of the minimum text "abc".
MalformedMinimumReturned ==
    /\ Done /\ ret = [node |-> <<>>, err |-> NumError(sAbc)]
    /\ named.kind = "struct" /\ arg # named
    /\ \E k \in 1..Len(named.fields) :
           /\ "minimum" \in DOMAIN named.fields[k].Tag
           /\ named.fields[k].Tag.minimum = sAbc

\* The key under which the code stores field k of t (from 1), and whether a
\* later field of t takes the same key and so replaces its node.
KeyOf(t, k) == FieldName(t.fields[k], StringsSplit(TagGet(t.fields[k].Tag, "json"), ","))

Replaced(t, k) == \E j \in (k + 1)..Len(t.fields) : KeyOf(t, j) = KeyOf(t, k)

\* The minimum a node of an integer type must carry: the annotated one if
\* tag holds a minimum, else dflt.
ExpectedMinimum(tag, dflt) ==
    IF "minimum" \in DOMAIN tag THEN <<Atoi(tag.minimum).val>> ELSE dflt

\* Every node of the tree n built for t has the minimum its type and the
\* annotations in tag ask for; tag is the tag of the field n is the node of,
\* NoTag for an element, a pointer target met on the way, or the type given.
RECURSIVE MinimumsAsTyped(_, _, _)
MinimumsAsTyped(t, n, tag) ==
    IF t.kind = "ptr" THEN MinimumsAsTyped(Elem(t), n, tag)
    ELSE IF t.kind \in UintKinds
         THEN n.Type = "integer" /\ n.Minimum = ExpectedMinimum(tag, <<0>>)
    ELSE IF t.kind \in IntKinds
         THEN n.Type = "integer" /\ n.Minimum = ExpectedMinimum(tag, <<>>)
    ELSE IF t.kind \in {"slice", "array"}
         THEN MinimumsAsTyped(Elem(t), n.Items[1], NoTag)
    ELSE IF t.kind = "struct"
         THEN \A k \in 1..Len(t.fields) :
                  Replaced(t, k)
                      \/ MinimumsAsTyped(t.fields[k].Type, n.Properties[KeyOf(t, k)],
                                         t.fields[k].Tag)
    ELSE TRUE

\* C6: in a returned tree, every node of an unsigned integer type (also
\* under pointers) is an integer node with minimum 0, unless it is the node
\* of a field with a minimum annotation, whose integer it then carries; a
\* maximum annotation alone leaves the 0; a node of a signed integer type
\* has no minimum unless annotated.
UnsignedMinimumZeroUnlessAnnotated ==
    Succeeded => MinimumsAsTyped(arg, ret.node[1], NoTag)

\* A tree with an unsigned field annotated minimum -3, which its node
\* carries, beside an annotated slice whose unsigned element keeps the 0.
UnsignedMinimumCases ==
    /\ Succeeded /\ Root.t.kind = "struct" /\ Len(Root.t.fields) = 2
    /\ Root.t.fields[1].Type = SliceOf(Prim("uint"))
    /\ Root.node.Properties[sJsonA].Minimum = <<2>>
    /\ Root.node.Properties[sJsonA].Items[1].Minimum = <<0>>
    /\ Root.t.fields[2].Type = Prim("uint")
    /\ "minimum" \in DOMAIN Root.t.fields[2].Tag
    /\ Root.node.Properties[<<>>].Minimum = <<0 - 3>>
    /\ Root.node.Properties[<<>>].Maximum = <<9>>

\* C7: in every node of a returned tree, every name in required is a key
\* of the node's properties.
RequiredWithinProperties ==
    Succeeded =>
        \A n \in AllNodes(ret.node[1]) : Range(n.Required) \subseteq DOMAIN n.Properties

\* A returned tree whose record node and a record node below it both have
\* required names.
NestedRequiredReturned ==
    /\ Succeeded /\ Root.t.kind = "struct"
    /\ Len(Root.node.Required) = 2
    /\ \E k \in DOMAIN Root.node.Properties : Root.node.Properties[k].Required # <<>>

LeafTypes == {"string", "integer", "number", "boolean"}

\* C8: in every node of a returned tree the kind fixes the shape: items is
\* there exactly for an array; properties only for an object, and then the
\* record has a field (a record without fields gives an object with neither
\* properties nor required); a string, integer, number or boolean node and
\* the kind-less node of a map have no items, properties or required.
KindFixesShape ==
    Succeeded =>
        /\ \A n \in AllNodes(ret.node[1]) :
               /\ n.Type \in LeafTypes \cup {"object", "array", ""}
               /\ (n.Items # <<>>) <=> (n.Type = "array")
               /\ (n.Properties # <<>>) => (n.Type = "object")
               /\ (n.Type \in LeafTypes \cup {""}) =>
                      (n.Items = <<>> /\ n.Properties = <<>> /\ n.Required = <<>>)
        /\ Root.t.kind = "struct" =>
               /\ Root.node.Type = "object"
               /\ (Root.node.Properties # <<>>) <=> (Len(Root.t.fields) > 0)
               /\ (Len(Root.t.fields) = 0) => (Root.node.Required = <<>>)
        /\ Root.t.kind = "map" => Root.node.Type = ""
        /\ Root.t.kind = "string" => Root.node.Type = "string"

\* A slice of a record without fields: an array node whose items is an
\* object node with neither properties nor required.
ArrayOfEmptyRecordReturned ==
    /\ Succeeded /\ arg.kind = "slice" /\ named = StructOf(<<>>)
    /\ ret.node[1].Type = "array"
    /\ ret.node[1].Items = <<[EmptySchema EXCEPT !.Type = "object"]>>

\* The error of the first failure on the depth-first walk of t in
\* declaration order, NoErr if there is none: a field's type is walked before
\* its annotations, which are taken in the order minimum, maximum, example.
RECURSIVE FirstFailure(_), FirstFieldFailure(_, _)
FirstFailure(t) ==
    IF t.kind = "struct" THEN FirstFieldFailure(t, 1)
    ELSE IF t.kind \in {"slice", "array", "ptr"} THEN FirstFailure(Elem(t))
    ELSE IF t.kind \in HandledKinds THEN NoErr
    ELSE UnsupportedError(t)

FirstFieldFailure(t, k) ==
    IF k > Len(t.fields) THEN NoErr
    ELSE LET f     == t.fields[k]
             below == FirstFailure(f.Type)
         IN  IF below # NoErr THEN below
             ELSE IF BadInt(f, "minimum") THEN NumError(f.Tag.minimum)
             ELSE IF BadInt(f, "maximum") THEN NumError(f.Tag.maximum)
             ELSE IF BadExample(f) THEN SyntaxError(f.Tag.example)
             ELSE FirstFieldFailure(t, k + 1)

\* C9: the error GenerateSchema returns is that of the first failure of the
\* depth-first, declaration-order walk; and once a failure is met nothing
\* more is walked: every step pops one call and hands the same error on.
FirstFailureIsReturned ==
    /\ [](Done => ret.err = FirstFailure(arg))
    /\ [][ErrPending =>
             /\ ret' = ret
             /\ Len(stack') = Len(stack) - 1
             /\ calls' = calls]_vars

\* A type with three failures, in a field's minimum, in its maximum and in
\* the type of the next field: the error of the minimum has come back.
FirstOfSeveralFailuresReturned ==
    /\ Done /\ named.kind = "struct" /\ Len(named.fields) = 2
    /\ DOMAIN named.fields[1].Tag = {"minimum", "maximum"}
    /\ BadInt(named.fields[1], "minimum") /\ BadInt(named.fields[1], "maximum")
    /\ named.fields[2].Type = InnerBad
    /\ ret.err = NumError(named.fields[1].Tag.minimum)

\* The named type contains itself through a pointer, slice or array.
RECURSIVE ContainsSelf(_)
ContainsSelf(t) ==
    IF t.kind = "struct" THEN \E k \in 1..Len(t.fields) : ContainsSelf(t.fields[k].Type)
    ELSE IF t.kind \in {"slice", "array", "ptr"}
         THEN t.elem = SelfRef \/ ContainsSelf(t.elem)
    ELSE FALSE

Acyclic == ~ContainsSelf(named)

SetMax(S) == IF S = {} THEN 0 ELSE CHOOSE m \in S : \A x \in S : x <= m

\* The nesting depth of an acyclic type: the calls on its deepest branch.
RECURSIVE NestingDepth(_)
NestingDepth(t) ==
    IF t.kind = "struct"
    THEN 1 + SetMax({NestingDepth(t.fields[k].Type) : k \in 1..Len(t.fields)})
    ELSE IF t.kind \in {"slice", "array", "ptr"} THEN 1 + NestingDepth(Elem(t))
    ELSE 1

\* The occurrences of types in an acyclic type t at path p: t itself, its
\* fields' types, its element type or pointer target, and theirs.
RECURSIVE Occurrences(_, _)
Occurrences(t, p) ==
    {p} \cup
    (IF t.kind = "struct"
     THEN UNION {Occurrences(t.fields[k].Type, Append(p, k)) : k \in 1..Len(t.fields)}
     ELSE IF t.kind \in {"slice", "array", "ptr"} THEN Occurrences(Elem(t), Append(p, 0))
     ELSE {})

\* How the walk of the named type ends: with a "node", with an "error", or
\* in a "loop" when it reaches a reference to the named type before any
\* failure.
RECURSIVE Outcome(_), FieldsOutcome(_, _)
Outcome(t) ==
    IF t.kind = "struct" THEN FieldsOutcome(t, 1)
    ELSE IF t.kind \in {"slice", "array", "ptr"}
         THEN IF t.elem = SelfRef THEN "loop" ELSE Outcome(t.elem)
    ELSE IF t.kind \in HandledKinds THEN "node"
    ELSE "error"

FieldsOutcome(t, k) ==
    IF k > Len(t.fields) THEN "node"
    ELSE LET f     == t.fields[k]
             below == Outcome(f.Type)
         IN  IF below # "node" THEN below
             ELSE IF BadInt(f, "minimum") \/ BadInt(f, "maximum") \/ BadExample(f)
                  THEN "error"
             ELSE FieldsOutcome(t, k + 1)

\* C10 as stated: for an acyclic type GenerateSchema terminates, the stack
\* is never deeper than the type is nested, and every occurrence is entered
\* exactly once; for a type that contains itself it never returns.
TerminatesIffAcyclic ==
    /\ [](Acyclic => Len(stack) <= NestingDepth(arg))
    /\ []((Acyclic /\ Done) =>
              (NoDuplicates(calls) /\ Range(calls) = Occurrences(arg, <<>>)))
    /\ (Acyclic => <>Done)
    /\ [](~Acyclic => ~Done)

\* C10 as amended: for an acyclic type GenerateSchema terminates, the stack
\* is never deeper than the type is nested, and every occurrence is entered
\* at most once, and exactly once when a node is returned; for a type that
\* contains itself there is no guard, and the call never returns unless the
\* walk meets a failure before it reaches the reference to the type itself,
\* in which case it returns that error.
TerminatesUnlessSelfReached ==
    /\ [](Acyclic => (Len(stack) <= NestingDepth(arg) /\ pc # "fatal"))
    /\ [](NoDuplicates(calls))
    /\ [](Succeeded => (Acyclic /\ Range(calls) = Occurrences(arg, <<>>)))
    /\ (Outcome(named) # "loop" => <>Done)
    /\ []((Done /\ ~Acyclic) => (Outcome(named) = "error" /\ ret.err = FirstFailure(arg)))
    /\ [](Outcome(named) = "loop" => ~Done)

\* A type that contains itself, for which GenerateSchema has returned: the
\* first field fails, the second is a pointer to the type.
SelfContainingTypeReturned ==
    /\ Done /\ ~Acyclic /\ ret.node = <<>>
    /\ Len(named.fields) = 2
    /\ named.fields[2].Type = PtrTo(SelfRef)

====
